---- MODULE Spec2Model ----
(***************************************************************************)
(* Model of term/termios_darwin.go: the terminal attribute calls (Attr,    *)
(* Termios.Set), the no-echo password reader GetPass with clearbuf, and    *)
(* the PTY allocator (OpenPTY, ptsname, PTY.Close, PTY.PTSName).           *)
(*                                                                         *)
(* The kernel and the os package are the environment: every ioctl, read,   *)
(* write, open and close may succeed or fail, chosen nondeterministically. *)
(***************************************************************************)
EXTENDS Integers, Sequences, FiniteSets, TLC

(***************************************************************************)
(* Bounds of the model.                                                    *)
(***************************************************************************)
\* largest capacity of the caller's password buffer (cap(pbuf))
MaxCap == 3
\* length of the kernel's name buffer in ptsname (128 bytes in the program)
NameBufLen == 3
\* number of Close calls the caller makes on a pair
MaxCloses == 2
\* width in bits of uint and int (64 in the program)
WordBits == 8
\* number of PTSName calls the caller makes on a pair
MaxNameCalls == 2

(***************************************************************************)
(* Program constants.                                                      *)
(***************************************************************************)
\* CBAUD = 0o010017
CBAUD == 4111
\* CBAUDEX = 0o010000
CBAUDEX == 4096
\* ECHO bit of the local flags (used at line 96; value of <termios.h>)
ECHO == 8

\* '\n' and '\r', the line terminators tested at line 110
LF == 10
CR == 13

(***************************************************************************)
(* Bit operations on naturals (Go's &, | and &^).                          *)
(***************************************************************************)
RECURSIVE BitAnd(_, _)
BitAnd(x, y) ==
    IF x = 0 \/ y = 0 THEN 0
    ELSE (x % 2) * (y % 2) + 2 * BitAnd(x \div 2, y \div 2)

BitOr(x, y) == x + y - BitAnd(x, y)

AndNot(x, y) == x - BitAnd(x, y)

(***************************************************************************)
(* Values.                                                                 *)
(***************************************************************************)
\* the two concurrent callers a handle may have; Spec runs caller 1 alone
AllProcs == {1, 2}
Callers == {1}

\* local-flag words the device may hold on entry: echo off or on, with one
\* other bit (2) set, to see that only ECHO is touched
LflagValues == {2, BitOr(2, ECHO)}
\* speed words the kernel may report: B9600 (0o15), and 9600 as a plain
\* number, which has bits outside CBAUD|CBAUDEX
SpeedValues == {13, 9600}

\* the fields of Termios: the four flag words, the control-character table
\* (two of its entries here) and the two speeds
Termios == [Iflag : Nat, Oflag : Nat, Cflag : Nat, Lflag : Nat, Cc : Seq(Nat),
            Ispeed : Nat, Ospeed : Nat]
\* the attributes of the terminal GetPass is called on
DevValues == [Iflag : {256}, Oflag : {1}, Cflag : {48}, Lflag : LflagValues,
              Cc : {<<3, 28>>}, Ispeed : SpeedValues, Ospeed : SpeedValues]
\* the zero value of Termios (var t Termios)
NoAttr == [Iflag |-> 0, Oflag |-> 0, Cflag |-> 0, Lflag |-> 0, Cc |-> <<0, 0>>,
           Ispeed |-> 0, Ospeed |-> 0]
\* attributes the kernel may report to Attr: speeds as B-codes (13, 4098)
\* and as plain rates (9600, 38400)
KernelSpeeds == {0, 13, 4098, 9600, 38400}
KernelValues == [Iflag : {0, 256}, Oflag : {0, 1}, Cflag : {48, 2224},
                 Lflag : LflagValues, Cc : {<<3, 28>>, <<0, 0>>},
                 Ispeed : KernelSpeeds, Ospeed : KernelSpeeds]

\* bytes a read can deliver, bytes the caller's buffer may hold on entry,
\* and the outcome of a read that fails
InputBytes == {97, 98, LF, CR}
CallerBytes == {0, 120}
FAIL == 0 - 1

\* all byte arrays of length n over S
ArraysOf(S, n) == [1..n -> S]

VARIABLES
    dev,      \* the terminal attributes held by the kernel for the handle f
    dev0,     \* dev when the call began (history)
    log,      \* every request issued on the handle, in order (history)
    pc,       \* pc[p]: where caller p is in GetPass
    t,        \* t[p]: GetPass's local t, the captured attributes
    i,        \* i[p]: GetPass's local i
    b,        \* b[p]: GetPass's one-byte read buffer b[0]
    pbuf,     \* pbuf[p]: the backing array of the caller's slice (Len = cap)
    plen,     \* plen[p]: len(pbuf)
    pbuf0,    \* pbuf[p] as the caller supplied it (history)
    ret,      \* ret[p]: what GetPass returned
    ptyPc,    \* where the PTY caller is: in OpenPTY, between calls, in Close
    fstate,   \* the master and the slave file: "unopened", "open", "closed"
    sname,    \* OpenPTY's local sname
    slavePath,\* the path OpenPTY opened as the slave (history)
    ptyRet,   \* what OpenPTY returned: the pair and the error
    pair,     \* the receiver of the Close call in progress
    slaveErr, \* Close's local slaveErr
    masterErr,\* Close's local masterErr
    closeRet, \* what the last Close returned
    closes,   \* number of Close calls made so far
    ptyLog,   \* every device operation of OpenPTY, in order (history)
    closeLog, \* every close attempted by the Close call in progress (history)
    ptyno,    \* the PTY index the kernel holds for the master
    nameRet,  \* what the last PTSName returned: the string and the error
    nameCalls,\* number of PTSName calls made so far
    nameLog   \* every TIOCGPTN query issued on the master (history)

gpvars == <<dev, dev0, log, pc, t, i, b, pbuf, plen, pbuf0, ret>>
ptyvars == <<ptyPc, fstate, sname, slavePath, ptyRet, pair, slaveErr, masterErr,
             closeRet, closes, ptyLog, closeLog>>
ptsvars == <<ptyno, nameRet, nameCalls, nameLog>>
vars == <<gpvars, ptyvars, ptsvars>>

(***************************************************************************)
(* Results of GetPass: a slice pbuf[:n] with a nil error, a nil slice with *)
(* an error, or a run-time panic (slice bounds out of range).              *)
(***************************************************************************)
NoRet == [kind |-> "none", n |-> 0, err |-> ""]
RetSlice(n) == [kind |-> "slice", n |-> n, err |-> ""]
RetErr(e) == [kind |-> "error", n |-> 0, err |-> e]
RetPanic == [kind |-> "panic", n |-> 0, err |-> "slice bounds out of range"]

Event(p, op, ok, attr, byte) ==
    [p |-> p, op |-> op, ok |-> ok, attr |-> attr, byte |-> byte]

AttrValueIspeedOnly(k) ==
    [k EXCEPT !.Ispeed = BitAnd(k.Ispeed, BitOr(CBAUD, CBAUDEX))]
(***************************************************************************)
(* Attr, lines 70-80: the value returned for kernel attributes k.          *)
(***************************************************************************)
AttrValue(k) ==
    [k EXCEPT !.Ispeed = BitAnd(k.Ispeed, BitOr(CBAUD, CBAUDEX)),
              !.Ospeed = BitAnd(k.Ospeed, BitOr(CBAUD, CBAUDEX))]

(***************************************************************************)
(* clearbuf(a[:n]), lines 121-125: a with its first n bytes zeroed.        *)
(***************************************************************************)
clearbuf(a, n) == [j \in 1..Len(a) |-> IF j <= n THEN 0 ELSE a[j]]

(***************************************************************************)
(* Pieces of GetPass, lines 89-118.                                        *)
(***************************************************************************)
\* lines 95-96: noecho := t; noecho.Lflag = noecho.Lflag &^ ECHO
NoechoAttr(a) == [a EXCEPT !.Lflag = AndNot(a.Lflag, ECHO)]

RestoreNoecho(p) == NoechoAttr(t[p])
\* line 94: the receiver of the deferred t.Set(f)
RestoreAttr(p) == t[p]

AfterAttrErrorDeferred == "deferred"
\* lines 91-93: the return on a failed Attr comes before the defer of line 94
AfterAttrError == "done"

AfterPromptErrorReads == "loop"
\* lines 102-104: a failed prompt write returns; no read follows
AfterPromptError == "deferred"

LoopContinuesInclusive(k, n) == k <= n
\* line 105: the loop condition i < len(pbuf)
LoopContinues(k, n) == k < n

IsTerminatorLFOnly(c) == c = LF
\* line 110: b[0] == '\n' || b[0] == '\r'
IsTerminator(c) == c = LF \/ c = CR

(***************************************************************************)
(* GetPass, lines 90-94: t, err := Attr(f); a failure returns (nil, err),  *)
(* a success registers the deferred t.Set(f).                              *)
(***************************************************************************)
GetPassAttr(p) ==
    /\ pc[p] = "attr"
    /\ \E ok \in BOOLEAN :
          /\ log' = Append(log, Event(p, "get", ok, IF ok THEN AttrValue(dev) ELSE NoAttr, 0))
          /\ IF ok
             THEN /\ t' = [t EXCEPT ![p] = AttrValue(dev)]
                  /\ pc' = [pc EXCEPT ![p] = "noecho"]
                  /\ ret' = ret
             ELSE /\ t' = t
                  /\ pc' = [pc EXCEPT ![p] = AfterAttrError]
                  /\ ret' = [ret EXCEPT ![p] = RetErr("attr")]
    /\ UNCHANGED <<dev, dev0, i, b, pbuf, plen, pbuf0>>
    /\ UNCHANGED <<ptyvars, ptsvars>>

(***************************************************************************)
(* GetPass, lines 95-99: write the echo-cleared copy; Termios.Set, lines   *)
(* 60-67, changes the device only when the ioctl succeeds.                 *)
(***************************************************************************)
GetPassNoecho(p) ==
    /\ pc[p] = "noecho"
    /\ \E ok \in BOOLEAN :
          /\ log' = Append(log, Event(p, "set", ok, NoechoAttr(t[p]), 0))
          /\ IF ok
             THEN /\ dev' = NoechoAttr(t[p])
                  /\ pc' = [pc EXCEPT ![p] = "prompt"]
                  /\ ret' = ret
             ELSE /\ dev' = dev
                  /\ pc' = [pc EXCEPT ![p] = "deferred"]
                  /\ ret' = [ret EXCEPT ![p] = RetErr("set")]
    /\ UNCHANGED <<dev0, t, i, b, pbuf, plen, pbuf0>>
    /\ UNCHANGED <<ptyvars, ptsvars>>

(***************************************************************************)
(* GetPass, lines 100-104: b := make([]byte, 1, 1); i := 0; write the      *)
(* prompt.                                                                 *)
(***************************************************************************)
GetPassPrompt(p) ==
    /\ pc[p] = "prompt"
    /\ b' = [b EXCEPT ![p] = 0]
    /\ i' = [i EXCEPT ![p] = 0]
    /\ \E ok \in BOOLEAN :
          /\ log' = Append(log, Event(p, "write", ok, NoAttr, 0))
          /\ IF ok
             THEN /\ pc' = [pc EXCEPT ![p] = "loop"]
                  /\ ret' = ret
             ELSE /\ pc' = [pc EXCEPT ![p] = AfterPromptError]
                  /\ ret' = [ret EXCEPT ![p] = RetErr("write")]
    /\ UNCHANGED <<dev, dev0, t, pbuf, plen, pbuf0>>
    /\ UNCHANGED <<ptyvars, ptsvars>>

(***************************************************************************)
(* GetPass, lines 105-115: one iteration of the read loop.  A failed read  *)
(* zeroes b[0] and pbuf[:i+1] and falls through to the terminator test.    *)
(***************************************************************************)
GetPassRead(p) ==
    /\ pc[p] = "loop"
    /\ LoopContinues(i[p], plen[p])
    /\ \E r \in InputBytes \cup {FAIL} :
          LET failed == r = FAIL
              b1 == IF failed THEN 0 ELSE r
              a1 == IF failed THEN clearbuf(pbuf[p], i[p] + 1) ELSE pbuf[p]
          IN  /\ log' = Append(log, Event(p, "read", ~failed, NoAttr, b1))
              /\ IF IsTerminator(b1)
                 THEN /\ ret' = [ret EXCEPT ![p] = RetSlice(i[p])]
                      /\ pc' = [pc EXCEPT ![p] = "deferred"]
                      /\ pbuf' = [pbuf EXCEPT ![p] = a1]
                      /\ b' = [b EXCEPT ![p] = b1]
                      /\ i' = i
                 ELSE /\ pbuf' = [pbuf EXCEPT ![p] = [a1 EXCEPT ![i[p] + 1] = b1]]
                      /\ b' = [b EXCEPT ![p] = 0]
                      /\ i' = [i EXCEPT ![p] = i[p] + 1]
                      /\ UNCHANGED <<pc, ret>>
    /\ UNCHANGED <<dev, dev0, t, plen, pbuf0>>
    /\ UNCHANGED <<ptyvars, ptsvars>>

(***************************************************************************)
(* GetPass, lines 116-117: the loop ended with i = len(pbuf).  The slice   *)
(* expression pbuf[:i+1] panics when i+1 exceeds cap(pbuf).                *)
(***************************************************************************)
GetPassExhausted(p) ==
    /\ pc[p] = "loop"
    /\ ~LoopContinues(i[p], plen[p])
    /\ IF i[p] + 1 <= Len(pbuf[p])
       THEN /\ pbuf' = [pbuf EXCEPT ![p] = clearbuf(pbuf[p], i[p] + 1)]
            /\ ret' = [ret EXCEPT ![p] = RetErr("ran out of bufferspace")]
       ELSE /\ pbuf' = pbuf
            /\ ret' = [ret EXCEPT ![p] = RetPanic]
    /\ pc' = [pc EXCEPT ![p] = "deferred"]
    /\ UNCHANGED <<dev, dev0, log, t, i, b, plen, pbuf0>>
    /\ UNCHANGED <<ptyvars, ptsvars>>

(***************************************************************************)
(* GetPass, line 94: the deferred t.Set(f) runs as the function leaves, by *)
(* return or by panic; its error is dropped.                               *)
(***************************************************************************)
GetPassDeferred(p) ==
    /\ pc[p] = "deferred"
    /\ \E ok \in BOOLEAN :
          /\ log' = Append(log, Event(p, "set", ok, RestoreAttr(p), 0))
          /\ dev' = IF ok THEN RestoreAttr(p) ELSE dev
    /\ pc' = [pc EXCEPT ![p] = "done"]
    /\ UNCHANGED <<dev0, t, i, b, pbuf, plen, pbuf0, ret>>
    /\ UNCHANGED <<ptyvars, ptsvars>>


(***************************************************************************)
(* The PTY allocator.  Errors are named by the step that produced them;    *)
(* Nil is the nil error.                                                   *)
(***************************************************************************)
Nil == "nil"
NilPTY == [nil |-> TRUE, Master |-> FALSE, Slave |-> FALSE]
PTY(m, sl) == [nil |-> FALSE, Master |-> m, Slave |-> sl]
NameBytes == {0, 97, 98}

PtyEvent(op, ok, arg) == [op |-> op, ok |-> ok, arg |-> arg]

PTYIdle ==
    /\ ptyPc = "idle"
    /\ fstate = [Master |-> "unopened", Slave |-> "unopened"]
    /\ sname = <<>>
    /\ slavePath = <<>>
    /\ ptyRet = [pair |-> NilPTY, err |-> Nil]
    /\ pair = NilPTY
    /\ slaveErr = Nil
    /\ masterErr = Nil
    /\ closeRet = <<>>
    /\ closes = 0
    /\ ptyLog = <<>>
    /\ closeLog = <<>>
    /\ ptyno = 0
    /\ nameRet = [name |-> <<>>, err |-> Nil]
    /\ nameCalls = 0
    /\ nameLog = <<>>

(***************************************************************************)
(* ptsname, lines 227-232: the bytes of n before its first NUL, or the     *)
(* error when n holds no NUL.                                              *)
(***************************************************************************)
FirstNul(n) == CHOOSE k \in 1..Len(n) : n[k] = 0 /\ \A j \in 1..(k - 1) : n[j] # 0

ptsnameScan(n) ==
    IF \E k \in 1..Len(n) : n[k] = 0
    THEN [name |-> SubSeq(n, 1, FirstNul(n) - 1), err |-> Nil]
    ELSE [name |-> <<>>, err |-> "TIOCPTYGNAME string not NUL-terminated"]

\* the pc a step of OpenPTY leaves behind: the next step, or the return
FilesAfterStepClosingMaster(f, err) ==
    IF err = Nil THEN f ELSE [f EXCEPT !.Master = "closed"]
\* lines 176, 181, 186, 191: the error returns close nothing; the master
\* opened at line 169 stays as it is
FilesAfterStep(f, err) == f

StepThenIgnore(err, next) == next
\* lines 170-172, 175-177, 180-182, 185-187: if err != nil { return nil, err }
StepThen(err, next) == IF err = Nil THEN next ELSE "returned"

(***************************************************************************)
(* OpenPTY, lines 169-172: open /dev/ptmx.                                 *)
(***************************************************************************)
OpenPTYMaster ==
    /\ ptyPc = "idle"
    /\ \E ok \in BOOLEAN :
          LET err == IF ok THEN Nil ELSE "open master" IN
          /\ ptyLog' = Append(ptyLog, PtyEvent("open master", ok, <<>>))
          /\ fstate' = IF ok THEN [fstate EXCEPT !.Master = "open"] ELSE fstate
          /\ ptyRet' = [pair |-> NilPTY, err |-> err]
          /\ ptyPc' = StepThen(err, "ptsname")
    /\ UNCHANGED <<sname, slavePath, pair, slaveErr, masterErr, closeRet, closes, closeLog>>
    /\ UNCHANGED <<gpvars, ptsvars>>

(***************************************************************************)
(* OpenPTY, lines 174-177, with ptsname, lines 219-233: the ioctl fills n  *)
(* (zeroed by make) when it succeeds.                                      *)
(***************************************************************************)
OpenPTYName ==
    /\ ptyPc = "ptsname"
    /\ \E ok \in BOOLEAN : \E n \in ArraysOf(NameBytes, NameBufLen) :
          LET r == IF ok THEN ptsnameScan(n) ELSE [name |-> <<>>, err |-> "ptsname ioctl"] IN
          /\ ~ok => n = [k \in 1..NameBufLen |-> 0]
          /\ ptyLog' = Append(ptyLog, PtyEvent("ptsname", r.err = Nil, r.name))
          /\ sname' = r.name
          /\ ptyRet' = [pair |-> NilPTY, err |-> r.err]
          /\ ptyPc' = StepThen(r.err, "grant")
          /\ fstate' = FilesAfterStep(fstate, r.err)
    /\ UNCHANGED <<slavePath, pair, slaveErr, masterErr, closeRet, closes, closeLog>>
    /\ UNCHANGED <<gpvars, ptsvars>>

(***************************************************************************)
(* OpenPTY, lines 179-182: grantpt, lines 197-199.                         *)
(***************************************************************************)
OpenPTYGrant ==
    /\ ptyPc = "grant"
    /\ \E ok \in BOOLEAN :
          LET err == IF ok THEN Nil ELSE "grantpt" IN
          /\ ptyLog' = Append(ptyLog, PtyEvent("grantpt", ok, <<>>))
          /\ ptyRet' = [pair |-> NilPTY, err |-> err]
          /\ ptyPc' = StepThen(err, "unlock")
          /\ fstate' = FilesAfterStep(fstate, err)
    /\ UNCHANGED <<sname, slavePath, pair, slaveErr, masterErr, closeRet, closes, closeLog>>
    /\ UNCHANGED <<gpvars, ptsvars>>

(***************************************************************************)
(* OpenPTY, lines 184-187: unlockpt, lines 201-203.                        *)
(***************************************************************************)
OpenPTYUnlock ==
    /\ ptyPc = "unlock"
    /\ \E ok \in BOOLEAN :
          LET err == IF ok THEN Nil ELSE "unlockpt" IN
          /\ ptyLog' = Append(ptyLog, PtyEvent("unlockpt", ok, <<>>))
          /\ ptyRet' = [pair |-> NilPTY, err |-> err]
          /\ ptyPc' = StepThen(err, "openslave")
          /\ fstate' = FilesAfterStep(fstate, err)
    /\ UNCHANGED <<sname, slavePath, pair, slaveErr, masterErr, closeRet, closes, closeLog>>
    /\ UNCHANGED <<gpvars, ptsvars>>

SlavePathFirstByte(name) == IF name = <<>> THEN name ELSE <<name[1]>>
\* line 189: the path given to os.OpenFile for the slave
SlavePathOf(name) == name

(***************************************************************************)
(* OpenPTY, lines 189-194: open the slave by name and return the pair.     *)
(* Opening the empty path fails.                                           *)
(***************************************************************************)
OpenPTYSlave ==
    /\ ptyPc = "openslave"
    /\ \E ok \in BOOLEAN :
          LET err == IF ok THEN Nil ELSE "open slave" IN
          /\ SlavePathOf(sname) = <<>> => ~ok
          /\ ptyLog' = Append(ptyLog, PtyEvent("open slave", ok, SlavePathOf(sname)))
          /\ slavePath' = SlavePathOf(sname)
          /\ fstate' = IF ok THEN [fstate EXCEPT !.Slave = "open"]
                       ELSE FilesAfterStep(fstate, err)
          /\ ptyRet' = [pair |-> IF ok THEN PTY(TRUE, TRUE) ELSE NilPTY, err |-> err]
          /\ ptyPc' = "returned"
    /\ UNCHANGED <<sname, pair, slaveErr, masterErr, closeRet, closes, closeLog>>
    /\ UNCHANGED <<gpvars, ptsvars>>

(***************************************************************************)
(* The caller calls Close on the pair OpenPTY returned, on that pair with  *)
(* a handle left nil, or on a nil pair.  Close, lines 237-240.             *)
(***************************************************************************)
CallClose ==
    /\ ptyPc = "returned"
    /\ closes < MaxCloses
    /\ pair' \in IF closes > 0 THEN {pair}
                ELSE {NilPTY} \cup {PTY(m, sl) : m \in {FALSE, ptyRet.pair.Master},
                                                sl \in {FALSE, ptyRet.pair.Slave}}
    /\ closes' = closes + 1
    /\ slaveErr' = "Slave FD nil"
    /\ masterErr' = Nil
    /\ IF pair'.nil
       THEN /\ closeRet' = <<[side |-> "", msg |-> "no PTY"]>>
            /\ ptyPc' = "returned"
       ELSE /\ closeRet' = <<>>
            /\ ptyPc' = "closeslave"
    /\ closeLog' = <<>>
    /\ UNCHANGED <<fstate, sname, slavePath, ptyRet, ptyLog>>
    /\ UNCHANGED <<gpvars, ptsvars>>

\* os.File.Close: closing a closed file fails; the file is closed afterwards
CloseErrs(st, side) ==
    IF st = "open" THEN {Nil, side \o " close failed"} ELSE {side \o " already closed"}

AfterCloseSlaveShort(e) == IF e = Nil THEN "closemaster" ELSE "closereturn"
\* lines 241-244: the master is closed whatever slaveErr is
AfterCloseSlave(e) == "closemaster"

(***************************************************************************)
(* Close, lines 241-243.                                                   *)
(***************************************************************************)
CloseSlave ==
    /\ ptyPc = "closeslave"
    /\ IF pair.Slave
       THEN \E e \in CloseErrs(fstate.Slave, "slave") :
              /\ slaveErr' = e
              /\ fstate' = [fstate EXCEPT !.Slave = "closed"]
              /\ closeLog' = Append(closeLog, PtyEvent("close slave", e = Nil, <<>>))
       ELSE UNCHANGED <<slaveErr, fstate, closeLog>>
    /\ ptyPc' = AfterCloseSlave(slaveErr')
    /\ UNCHANGED <<sname, slavePath, ptyRet, pair, masterErr, closeRet, closes, ptyLog>>
    /\ UNCHANGED <<gpvars, ptsvars>>

(***************************************************************************)
(* Close, lines 244-247.                                                   *)
(***************************************************************************)
CloseMaster ==
    /\ ptyPc = "closemaster"
    /\ IF pair.Master
       THEN \E e \in CloseErrs(fstate.Master, "master") :
              /\ masterErr' = e
              /\ fstate' = [fstate EXCEPT !.Master = "closed"]
              /\ closeLog' = Append(closeLog, PtyEvent("close master", e = Nil, <<>>))
       ELSE /\ masterErr' = "Master FD nil"
            /\ UNCHANGED <<fstate, closeLog>>
    /\ ptyPc' = "closereturn"
    /\ UNCHANGED <<sname, slavePath, ptyRet, pair, slaveErr, closeRet, closes, ptyLog>>
    /\ UNCHANGED <<gpvars, ptsvars>>

CloseErrorSlaveFirstOnly(se, me) ==
    IF se # Nil THEN <<[side |-> "Slave", msg |-> se]>>
    ELSE IF me # Nil THEN <<[side |-> "Master", msg |-> me]>> ELSE <<>>
(***************************************************************************)
(* Close, lines 248-258: the parts joined into the returned error; the     *)
(* empty sequence is the nil error.                                        *)
(***************************************************************************)
CloseError(se, me) ==
    (IF se # Nil THEN <<[side |-> "Slave", msg |-> se]>> ELSE <<>>)
    \o (IF me # Nil THEN <<[side |-> "Master", msg |-> me]>> ELSE <<>>)

CloseReturn ==
    /\ ptyPc = "closereturn"
    /\ closeRet' = CloseError(slaveErr, masterErr)
    /\ ptyPc' = "returned"
    /\ UNCHANGED <<fstate, sname, slavePath, ptyRet, pair, slaveErr, masterErr,
                   closes, ptyLog, closeLog>>
    /\ UNCHANGED <<gpvars, ptsvars>>

(***************************************************************************)
(* One GetPass call by caller 1 on a terminal in any attribute state, with *)
(* any buffer of capacity up to MaxCap.                                    *)
(***************************************************************************)
Buffers == UNION {ArraysOf(CallerBytes, n) : n \in 0..MaxCap}

Init ==
    /\ dev \in DevValues
    /\ dev0 = dev
    /\ log = <<>>
    /\ pc = [p \in AllProcs |-> IF p \in Callers THEN "attr" ELSE "idle"]
    /\ t = [p \in AllProcs |-> NoAttr]
    /\ i = [p \in AllProcs |-> 0]
    /\ b = [p \in AllProcs |-> 0]
    /\ \E a \in Buffers : \E n \in 0..MaxCap :
          /\ n <= Len(a)
          /\ pbuf = [p \in AllProcs |-> IF p \in Callers THEN a ELSE <<>>]
          /\ plen = [p \in AllProcs |-> IF p \in Callers THEN n ELSE 0]
    /\ pbuf0 = pbuf
    /\ ret = [p \in AllProcs |-> NoRet]
    /\ PTYIdle

Next ==
    \E p \in Callers :
        \/ GetPassAttr(p)
        \/ GetPassNoecho(p)
        \/ GetPassPrompt(p)
        \/ GetPassRead(p)
        \/ GetPassExhausted(p)
        \/ GetPassDeferred(p)

Spec == Init /\ [][Next]_vars

(***************************************************************************)
(* Attr, lines 70-80, called by caller p on its own: TCGETS copies the     *)
(* kernel's attributes into t, and the speeds are masked on success.       *)
(***************************************************************************)
AttrCall(p) ==
    /\ pc[p] \in {"a_attr", "a_attr2"}
    /\ \E ok \in BOOLEAN :
          /\ log' = Append(log, Event(p, "get", ok, IF ok THEN AttrValue(dev) ELSE NoAttr, 0))
          /\ t' = [t EXCEPT ![p] = IF ok THEN AttrValue(dev) ELSE NoAttr]
          /\ pc' = [pc EXCEPT ![p] = IF ok /\ pc[p] = "a_attr" THEN "a_set" ELSE "a_done"]
    /\ UNCHANGED <<dev, dev0, i, b, pbuf, plen, pbuf0, ret>>
    /\ UNCHANGED <<ptyvars, ptsvars>>

(***************************************************************************)
(* Termios.Set, lines 60-67, called with the value Attr returned, as it is *)
(* or with ECHO cleared: TCSETS copies it to the kernel when it succeeds.  *)
(***************************************************************************)
SetCall(p) ==
    /\ pc[p] = "a_set"
    /\ \E v \in {t[p], NoechoAttr(t[p])} : \E ok \in BOOLEAN :
          /\ log' = Append(log, Event(p, "set", ok, v, 0))
          /\ dev' = IF ok THEN v ELSE dev
    /\ pc' = [pc EXCEPT ![p] = "a_attr2"]
    /\ UNCHANGED <<dev0, t, i, b, pbuf, plen, pbuf0, ret>>
    /\ UNCHANGED <<ptyvars, ptsvars>>

(***************************************************************************)
(* A caller that reads the attributes, writes them back and reads again,   *)
(* on a terminal in any attribute state.                                   *)
(***************************************************************************)
InitAttr ==
    /\ dev \in KernelValues
    /\ dev0 = dev
    /\ log = <<>>
    /\ pc = [p \in AllProcs |-> IF p \in Callers THEN "a_attr" ELSE "idle"]
    /\ t = [p \in AllProcs |-> NoAttr]
    /\ i = [p \in AllProcs |-> 0]
    /\ b = [p \in AllProcs |-> 0]
    /\ pbuf = [p \in AllProcs |-> <<>>]
    /\ plen = [p \in AllProcs |-> 0]
    /\ pbuf0 = pbuf
    /\ ret = [p \in AllProcs |-> NoRet]
    /\ PTYIdle

NextAttr ==
    \E p \in Callers :
        \/ AttrCall(p)
        \/ SetCall(p)

SpecAttr == InitAttr /\ [][NextAttr]_vars

(***************************************************************************)
(* Two GetPass calls on the same handle with no synchronization: the steps *)
(* of the two callers interleave freely, so the calls may overlap or run   *)
(* one after the other.  Each caller has its own one-byte slice of a       *)
(* two-byte array.                                                         *)
(***************************************************************************)
InitRace ==
    /\ dev \in {d \in DevValues : d.Ispeed = 13 /\ d.Ospeed = 13}
    /\ dev0 = dev
    /\ log = <<>>
    /\ pc = [p \in AllProcs |-> "attr"]
    /\ t = [p \in AllProcs |-> NoAttr]
    /\ i = [p \in AllProcs |-> 0]
    /\ b = [p \in AllProcs |-> 0]
    /\ pbuf = [p \in AllProcs |-> <<120, 120>>]
    /\ plen = [p \in AllProcs |-> 1]
    /\ pbuf0 = pbuf
    /\ ret = [p \in AllProcs |-> NoRet]
    /\ PTYIdle

NextRace ==
    \E p \in AllProcs :
        \/ GetPassAttr(p)
        \/ GetPassNoecho(p)
        \/ GetPassPrompt(p)
        \/ GetPassRead(p)
        \/ GetPassExhausted(p)
        \/ GetPassDeferred(p)

SpecRace == InitRace /\ [][NextRace]_vars

(***************************************************************************)
(* strconv.Itoa of a signed word, as the characters of the string: a "-"   *)
(* for a negative value, then the decimal digits.                          *)
(***************************************************************************)
DigitChar(d) == <<"0", "1", "2", "3", "4", "5", "6", "7", "8", "9">>[d + 1]

RECURSIVE Digits(_)
Digits(k) ==
    IF k < 10 THEN <<DigitChar(k)>> ELSE Digits(k \div 10) \o <<DigitChar(k % 10)>>

Itoa(k) == IF k < 0 THEN <<"-">> \o Digits(0 - k) ELSE Digits(k)

\* line 267: int(n), the conversion of the uint n to the signed word
ToInt(n) == IF n >= 2 ^ (WordBits - 1) THEN n - 2 ^ WordBits ELSE n

(***************************************************************************)
(* PTY.PTSName, lines 262-268, with PTY.PTSNumber, lines 271-278: the      *)
(* TIOCGPTN ioctl on the master reports the index when it succeeds.        *)
(***************************************************************************)
PTSName ==
    /\ ptyPc = "returned"
    /\ ptyRet.pair.Master
    /\ nameCalls < MaxNameCalls
    /\ nameCalls' = nameCalls + 1
    /\ \E ok \in BOOLEAN :
          /\ nameLog' = Append(nameLog, PtyEvent("TIOCGPTN", ok, <<>>))
          /\ nameRet' = IF ok
                        THEN [name |-> <<"/dev/pts/">> \o Itoa(ToInt(ptyno)), err |-> Nil]
                        ELSE [name |-> <<>>, err |-> "TIOCGPTN"]
    /\ UNCHANGED ptyno
    /\ UNCHANGED <<gpvars, ptyvars>>

(***************************************************************************)
(* The caller of PTSName: a pair OpenPTY returned, whose master has any    *)
(* index an unsigned word can hold.                                        *)
(***************************************************************************)
InitPTS ==
    /\ dev = [NoAttr EXCEPT !.Lflag = BitOr(2, ECHO), !.Ispeed = 13, !.Ospeed = 13]
    /\ dev0 = dev
    /\ log = <<>>
    /\ pc = [p \in AllProcs |-> "idle"]
    /\ t = [p \in AllProcs |-> NoAttr]
    /\ i = [p \in AllProcs |-> 0]
    /\ b = [p \in AllProcs |-> 0]
    /\ pbuf = [p \in AllProcs |-> <<>>]
    /\ plen = [p \in AllProcs |-> 0]
    /\ pbuf0 = pbuf
    /\ ret = [p \in AllProcs |-> NoRet]
    /\ ptyPc = "returned"
    /\ fstate = [Master |-> "open", Slave |-> "open"]
    /\ sname = <<97>>
    /\ slavePath = <<97>>
    /\ ptyRet = [pair |-> PTY(TRUE, TRUE), err |-> Nil]
    /\ pair = NilPTY
    /\ slaveErr = Nil
    /\ masterErr = Nil
    /\ closeRet = <<>>
    /\ closes = 0
    /\ ptyLog = <<>>
    /\ closeLog = <<>>
    /\ ptyno \in 0..(2 ^ WordBits - 1)
    /\ nameRet = [name |-> <<>>, err |-> Nil]
    /\ nameCalls = 0
    /\ nameLog = <<>>

NextPTS == PTSName

SpecPTS == InitPTS /\ [][NextPTS]_vars

(***************************************************************************)
(* The PTY caller: OpenPTY once, then up to MaxCloses calls of Close.      *)
(***************************************************************************)
InitPTY ==
    /\ dev = [NoAttr EXCEPT !.Lflag = BitOr(2, ECHO), !.Ispeed = 13, !.Ospeed = 13]
    /\ dev0 = dev
    /\ log = <<>>
    /\ pc = [p \in AllProcs |-> "idle"]
    /\ t = [p \in AllProcs |-> NoAttr]
    /\ i = [p \in AllProcs |-> 0]
    /\ b = [p \in AllProcs |-> 0]
    /\ pbuf = [p \in AllProcs |-> <<>>]
    /\ plen = [p \in AllProcs |-> 0]
    /\ pbuf0 = pbuf
    /\ ret = [p \in AllProcs |-> NoRet]
    /\ PTYIdle

NextPTY ==
    \/ OpenPTYMaster
    \/ OpenPTYName
    \/ OpenPTYGrant
    \/ OpenPTYUnlock
    \/ OpenPTYSlave
    \/ CallClose
    \/ CloseSlave
    \/ CloseMaster
    \/ CloseReturn

SpecPTY == InitPTY /\ [][NextPTY]_vars

(***************************************************************************)
(* Properties of GetPass (caller 1, specification Spec).                   *)
(***************************************************************************)
Reads == SelectSeq(log, LAMBDA e : e.op = "read")
Returned == pc[1] = "done"
Captured == Len(log) >= 1 /\ log[1].op = "get" /\ log[1].ok
NoechoFailed == Len(log) >= 2 /\ log[2].op = "set" /\ ~log[2].ok
PromptWritten == \E k \in 1..Len(log) : log[k].op = "write" /\ log[k].ok
NoReadFailed == \A k \in 1..Len(Reads) : Reads[k].ok
LineEnd(c) == c \in {LF, CR}
HasTerminator == \E k \in 1..Len(Reads) : Reads[k].ok /\ LineEnd(Reads[k].byte)
\* 0-based index of the first terminator delivered
FirstTerminator ==
    CHOOSE k \in 0..(Len(Reads) - 1) :
        /\ Reads[k + 1].ok /\ LineEnd(Reads[k + 1].byte)
        /\ \A j \in 1..k : ~(Reads[j].ok /\ LineEnd(Reads[j].byte))
HasFailedRead == \E k \in 1..Len(Reads) : ~Reads[k].ok
\* 0-based position of the first failed read
FirstFailedRead ==
    CHOOSE k \in 0..(Len(Reads) - 1) :
        ~Reads[k + 1].ok /\ \A j \in 1..k : Reads[j].ok
EchoOf(a) == BitAnd(a.Lflag, ECHO)

\* C1: once Attr has succeeded, whichever way GetPass leaves (a failed
\* echo-disable write, a failed prompt write, a terminator, an exhausted
\* buffer, failed reads), the last request on the handle is a set-attributes
\* request carrying the captured original attributes, and when that request
\* succeeds the device's echo flag is what it was on entry.
C1_RestoreIsLastWrite ==
    (Returned /\ Captured) =>
        LET last == log[Len(log)] IN
        /\ Len(log) >= 2
        /\ last.op = "set"
        /\ last.attr = t[1]
        /\ t[1] = AttrValue(dev0)
        /\ \A k \in 1..(Len(log) - 1) : log[k].op = "set" => log[k].attr = NoechoAttr(t[1])
        /\ last.ok => EchoOf(dev) = EchoOf(dev0)

C1_Witness ==
    /\ Returned
    /\ ret[1].kind = "slice"
    /\ EchoOf(dev0) = ECHO
    /\ log[2].op = "set" /\ log[2].ok
    /\ log[Len(log)].ok
    /\ EchoOf(dev) = ECHO

\* C2: when no read fails and the first terminator ('\n' or '\r') arrives
\* at index k < len(pbuf), GetPass returns (pbuf[0:k], nil), pbuf[0:k] holds
\* the input bytes 0..k-1 in order, and pbuf[k..len-1] is as the caller
\* supplied it.
C2_TerminatorReturnsPrefix ==
    (Returned /\ NoReadFailed /\ HasTerminator) =>
        LET k == FirstTerminator IN
        /\ k < plen[1]
        /\ Len(Reads) = k + 1
        /\ ret[1] = RetSlice(k)
        /\ \A j \in 1..k : pbuf[1][j] = Reads[j].byte
        /\ \A j \in (k + 1)..plen[1] : pbuf[1][j] = pbuf0[1][j]

C2_Witness ==
    /\ Returned
    /\ NoReadFailed
    /\ plen[1] = 3
    /\ ret[1] = RetSlice(2)
    /\ Reads[1].byte = 97 /\ Reads[2].byte = 98 /\ Reads[3].byte = CR
    /\ pbuf[1][1] = 97 /\ pbuf[1][2] = 98
    /\ pbuf0[1][3] = 120 /\ pbuf[1][3] = 120

\* C3 (as claimed): for every buffer, also one whose capacity equals its
\* length, when the first len(pbuf) input bytes hold no terminator and no
\* read fails, GetPass returns (nil, buffer-exhausted error) and every byte
\* of pbuf is zero afterwards.
C3_ExhaustedReturnsErrorAndZeroes ==
    (Returned /\ PromptWritten /\ NoReadFailed /\ ~HasTerminator) =>
        /\ ret[1] = RetErr("ran out of bufferspace")
        /\ \A j \in 1..plen[1] : pbuf[1][j] = 0

\* C4 (as claimed, and weakened in the claim's favour: a panic is not
\* counted against it): if a read fails at position i, GetPass returns no
\* password slice with a nil error, and pbuf[0..i] is zero at return.
C4_ReadFailureReturnsError ==
    (Returned /\ HasFailedRead) =>
        /\ ret[1].kind # "slice"
        /\ \A j \in 1..(FirstFailedRead + 1) : pbuf[1][j] = 0

\* C5 (as claimed): if the write of the echo-cleared copy fails, GetPass
\* returns an error without writing the prompt or reading a byte, and the
\* device's attributes at return are exactly those at entry.
C5_NoechoFailureLeavesDevice ==
    (Returned /\ NoechoFailed) =>
        /\ ret[1] = RetErr("set")
        /\ \A k \in 1..Len(log) : log[k].op \notin {"write", "read"}
        /\ dev = dev0

\* C6: if the initial Attr fails, GetPass returns (nil, that error) at once:
\* no set-attributes request, no write, no read, and the caller's buffer
\* and the device are untouched.
C6_AttrFailureNoSideEffect ==
    (Len(log) >= 1 /\ log[1].op = "get" /\ ~log[1].ok) =>
        /\ Returned
        /\ ret[1] = RetErr("attr")
        /\ Len(log) = 1
        /\ pbuf[1] = pbuf0[1]
        /\ dev = dev0

C6_Witness ==
    /\ Returned
    /\ ret[1] = RetErr("attr")
    /\ ~log[1].ok
    /\ plen[1] = 2
    /\ pbuf0[1][1] = 120

(***************************************************************************)
(* Properties of the PTY allocator (specification SpecPTY).                *)
(***************************************************************************)
CloseReturned == ptyPc = "returned" /\ closes > 0 /\ ~pair.nil
CloseFailedOn(op) == \E k \in 1..Len(closeLog) : closeLog[k].op = op /\ ~closeLog[k].ok
SlaveBad == ~pair.Slave \/ CloseFailedOn("close slave")
MasterBad == ~pair.Master \/ CloseFailedOn("close master")
HasPart(side) == \E k \in 1..Len(closeRet) : closeRet[k].side = side

\* C7: on a non-nil pair Close returns nil iff both handles are present and
\* both closes succeed; otherwise the error has a "Slave:" part exactly
\* when the slave close failed or the slave was absent, and a "Master:"
\* part exactly when the master close failed or the master was absent.
C7_CloseAggregates ==
    CloseReturned =>
        /\ closeRet = <<>> <=> (~SlaveBad /\ ~MasterBad)
        /\ HasPart("Slave") <=> SlaveBad
        /\ HasPart("Master") <=> MasterBad
        /\ Len(closeRet) <= 2
        /\ \A k \in 1..Len(closeRet) : closeRet[k].side \in {"Slave", "Master"}

C7_Witness ==
    /\ CloseReturned
    /\ pair = PTY(TRUE, TRUE)
    /\ CloseFailedOn("close slave")
    /\ CloseFailedOn("close master")
    /\ Len(closeRet) = 2
    /\ closeRet[1].side = "Slave" /\ closeRet[2].side = "Master"

\* C8: a Close call on a non-nil pair attempts to close each present handle
\* exactly once, the slave before the master, and the master whatever the
\* slave close did.
C8_CloseAttemptsBoth ==
    CloseReturned =>
        [k \in 1..Len(closeLog) |-> closeLog[k].op]
            = (IF pair.Slave THEN <<"close slave">> ELSE <<>>)
              \o (IF pair.Master THEN <<"close master">> ELSE <<>>)

C8_Witness ==
    /\ CloseReturned
    /\ pair = PTY(TRUE, TRUE)
    /\ Len(closeLog) = 2
    /\ closeLog[1].op = "close slave" /\ ~closeLog[1].ok
    /\ closeLog[2].op = "close master" /\ closeLog[2].ok

OpenPTYSteps == <<"open master", "ptsname", "grantpt", "unlockpt", "open slave">>
OpenPTYReturned == ptyPc \notin {"idle", "ptsname", "grant", "unlock", "openslave"}
AllStepsOk == Len(ptyLog) = 5 /\ \A k \in 1..5 : ptyLog[k].ok
StepErrors(op) ==
    IF op = "ptsname"
    THEN {"ptsname ioctl", "TIOCPTYGNAME string not NUL-terminated"}
    ELSE {op}

\* C9: OpenPTY issues open master, slave-name query, grant, unlock, open
\* slave in that order, each only after all earlier ones succeeded and none
\* after a failed one, and the path opened as the slave is the name the
\* query returned.
C9_OpenPTYStepOrder ==
    /\ Len(ptyLog) <= 5
    /\ \A k \in 1..Len(ptyLog) : ptyLog[k].op = OpenPTYSteps[k]
    /\ \A k \in 1..(Len(ptyLog) - 1) : ptyLog[k].ok
    /\ Len(ptyLog) = 5 => ptyLog[5].arg = ptyLog[2].arg /\ slavePath = ptyLog[2].arg
    /\ (OpenPTYReturned /\ Len(ptyLog) < 5) => ~ptyLog[Len(ptyLog)].ok

C9_Witness ==
    /\ OpenPTYReturned
    /\ AllStepsOk
    /\ ptyLog[2].arg = <<97, 98>>
    /\ slavePath = <<97, 98>>

\* C10: OpenPTY returns a non-nil pair with a nil error iff all five steps
\* succeeded, and then both handles of the pair are open; when a step fails
\* it returns a nil pair with the error of that step.
C10_OpenPTYResult ==
    (OpenPTYReturned /\ closes = 0) =>
        /\ (~ptyRet.pair.nil /\ ptyRet.err = Nil) <=> AllStepsOk
        /\ AllStepsOk =>
              /\ ptyRet.pair = PTY(TRUE, TRUE)
              /\ fstate.Master = "open" /\ fstate.Slave = "open"
        /\ ~AllStepsOk =>
              /\ ptyRet.pair.nil
              /\ ~ptyLog[Len(ptyLog)].ok
              /\ ptyRet.err \in StepErrors(ptyLog[Len(ptyLog)].op)

C10_Witness ==
    /\ OpenPTYReturned
    /\ closes = 0
    /\ Len(ptyLog) = 3
    /\ ptyRet.pair.nil
    /\ ptyRet.err = "grantpt"

\* C11: when OpenPTY has opened the master and one of the steps 2 to 5
\* fails, OpenPTY does not close the master: it is still open when the
\* error is returned.
C11_MasterLeftOpenOnFailure ==
    (OpenPTYReturned /\ closes = 0 /\ Len(ptyLog) >= 2 /\ ~AllStepsOk) =>
        /\ ptyLog[1].ok
        /\ ptyRet.err # Nil
        /\ fstate.Master = "open"

C11_Witness ==
    /\ OpenPTYReturned
    /\ closes = 0
    /\ Len(ptyLog) = 4
    /\ ptyRet.err = "unlockpt"
    /\ fstate.Master = "open"

\* C12 (as claimed): when OpenPTY returns a non-nil error with the master
\* opened, its results give the caller a handle to the master, and a caller
\* that closes what it was given on every error leaves no master open.
C12_CallerCanCloseMaster ==
    (OpenPTYReturned /\ ptyRet.err # Nil /\ Len(ptyLog) >= 2) =>
        /\ ~ptyRet.pair.nil /\ ptyRet.pair.Master
        /\ (closes > 0 /\ ptyPc = "returned") => fstate.Master # "open"

(***************************************************************************)
(* Properties of Attr and Termios.Set (specification SpecAttr).            *)
(***************************************************************************)
SpeedMask == BitOr(CBAUD, CBAUDEX)
\* the kernel's attributes when request k of the log was issued
KernelAt(k) == IF k >= 3 /\ log[2].ok THEN log[2].attr ELSE dev0

\* C13: a successful Attr returns Ispeed and Ospeed equal to the kernel's
\* values ANDed with CBAUD|CBAUDEX, with no bit outside that mask, and
\* every other field exactly as the kernel holds it.
C13_AttrMasksSpeedsOnly ==
    \A k \in 1..Len(log) :
        (log[k].op = "get" /\ log[k].ok) =>
            LET a == log[k].attr
                kern == KernelAt(k)
            IN  /\ a.Ispeed = BitAnd(kern.Ispeed, SpeedMask)
                /\ a.Ospeed = BitAnd(kern.Ospeed, SpeedMask)
                /\ AndNot(a.Ispeed, SpeedMask) = 0
                /\ AndNot(a.Ospeed, SpeedMask) = 0
                /\ a.Iflag = kern.Iflag /\ a.Oflag = kern.Oflag
                /\ a.Cflag = kern.Cflag /\ a.Lflag = kern.Lflag
                /\ a.Cc = kern.Cc

C13_Witness ==
    /\ Len(log) >= 1
    /\ log[1].op = "get" /\ log[1].ok
    /\ dev0.Ispeed = 38400 /\ log[1].attr.Ispeed = 4096
    /\ dev0.Ospeed = 4098 /\ log[1].attr.Ospeed = 4098
    /\ dev0.Iflag = 256 /\ log[1].attr.Iflag = 256

\* C14 (as claimed): Attr followed by Set of the unmodified value leaves
\* the device's attributes as they were, and a subsequent Attr returns a
\* value equal to the first.
C14_AttrSetIsNoOp ==
    (/\ Len(log) >= 2
     /\ log[1].op = "get" /\ log[1].ok
     /\ log[2].op = "set" /\ log[2].attr = log[1].attr) =>
        /\ dev = dev0
        /\ (Len(log) >= 3 /\ log[3].ok) => log[3].attr = log[1].attr

\* C15 (as claimed, a panic not counted against it): every failed request
\* of a GetPass call shows in what it returns; a failed restoring write or
\* a failed read makes GetPass return a non-nil error.
C15_NoErrorDropped ==
    (Returned /\ \E k \in 1..Len(log) : ~log[k].ok) => ret[1].kind # "slice"

(***************************************************************************)
(* Properties of two GetPass calls on one handle (specification SpecRace). *)
(***************************************************************************)
BothReturned == \A p \in AllProcs : pc[p] = "done"
EventsOf(p) == {k \in 1..Len(log) : log[k].p = p}
\* the calls did not overlap: one caller's requests all precede the other's
Serialized ==
    \E p \in AllProcs : \E q \in AllProcs \ {p} :
        \A k \in EventsOf(p) : \A j \in EventsOf(q) : k < j
AllSetsOk == \A k \in 1..Len(log) : log[k].op = "set" => log[k].ok

IsDigit(c) == \E d \in 0..9 : DigitChar(d) = c
DigitVal(c) == CHOOSE d \in 0..9 : DigitChar(d) = c
RECURSIVE DecValue(_)
DecValue(cs) ==
    IF cs = <<>> THEN 0
    ELSE 10 * DecValue(SubSeq(cs, 1, Len(cs) - 1)) + DigitVal(cs[Len(cs)])

\* C17 (as claimed): for every index n an unsigned word can hold, PTSName
\* returns "/dev/pts/" followed by the decimal digits of n; the index is
\* queried on each call, and a failed query gives ("", its error).
C17_PTSNameIsDecimal ==
    nameCalls > 0 =>
        /\ Len(nameLog) = nameCalls
        /\ IF nameLog[Len(nameLog)].ok
           THEN /\ nameRet.err = Nil
                /\ Len(nameRet.name) >= 2
                /\ nameRet.name[1] = "/dev/pts/"
                /\ \A k \in 2..Len(nameRet.name) : IsDigit(nameRet.name[k])
                /\ DecValue(Tail(nameRet.name)) = ptyno
           ELSE nameRet.name = <<>> /\ nameRet.err # Nil

(***************************************************************************)
(* Further properties of GetPass (caller 1, specification Spec).           *)
(***************************************************************************)
OpsOfLog == [k \in 1..Len(log) |-> log[k].op]
CountOp(op) == Cardinality({k \in 1..Len(log) : log[k].op = op})

\* C18: the prompt write and the reads come only after a successful
\* echo-disable write and before the restoring write, the prompt before
\* the first read, no read after a failed prompt write, and a call that
\* captured the attributes issues exactly one restoring write, as its last
\* request.
C18_PhaseOrder ==
    /\ Len(log) >= 1 => log[1].op = "get"
    /\ Len(log) >= 2 => log[1].ok /\ log[2].op = "set" /\ log[2].attr = NoechoAttr(t[1])
    /\ \A k \in 3..Len(log) :
          \/ /\ log[k].op = "write"
             /\ k = 3 /\ log[2].ok
          \/ /\ log[k].op = "read"
             /\ k > 3 /\ log[2].ok /\ log[3].op = "write" /\ log[3].ok
          \/ /\ log[k].op = "set"
             /\ log[k].attr = t[1]
             /\ k = Len(log) /\ Returned
    /\ (Returned /\ Captured) =>
          /\ CountOp("set") = 2
          /\ log[Len(log)].op = "set"
    /\ (pc[1] = "deferred") => CountOp("set") = 1

C18_Witness ==
    /\ Returned
    /\ OpsOfLog = <<"get", "set", "write", "read", "read", "read", "set">>
    /\ ret[1].kind = "slice"

\* C19 (as claimed): GetPass writes the backing array only below
\* len(pbuf) and never slices it beyond len(pbuf), also when the capacity
\* exceeds the length and when the length is 0.
C19_WritesInsideSlice ==
    /\ ret[1].kind # "panic"
    /\ \A j \in (plen[1] + 1)..Len(pbuf[1]) : pbuf[1][j] = pbuf0[1][j]

\* C20: GetPass issues at most len(pbuf) reads, none after the first read
\* that delivered a terminator and none when len(pbuf) is 0, and it
\* terminates: after at most len(pbuf) + 4 requests it has returned, and
\* until then a step is always possible.
C20_BoundedReads ==
    /\ Len(Reads) <= plen[1]
    /\ \A k \in 1..Len(Reads) :
          (Reads[k].ok /\ LineEnd(Reads[k].byte)) => k = Len(Reads)
    /\ plen[1] = 0 => Len(Reads) = 0
    /\ Len(log) <= plen[1] + 4
    /\ Returned \/ ENABLED Next

C20_Witness ==
    /\ Returned
    /\ plen[1] = 3
    /\ Len(Reads) = 3
    /\ ~Reads[1].ok /\ Reads[2].ok /\ ~Reads[3].ok
    /\ Len(log) = 7

====
